---- MODULE Spec2Model ----
(***************************************************************************)
(* A model of scripts/fetch_poem.py: the poem-of-the-day fetcher.          *)
(*                                                                         *)
(* Strings are modelled as run-length texts: a text is a sequence of runs  *)
(* [c |-> token, n |-> number of characters].  The tokens " " and "\n" are *)
(* whitespace; every other token is a word (or a repeated character) whose *)
(* characters are not whitespace.  Lengths, strip(), count("\n") and       *)
(* substring tests on tokens are computed on that representation.          *)
(***************************************************************************)
EXTENDS Integers, Sequences, FiniteSets, TLC

VARIABLES
    input, output, called,                   \* one call of a pure function
    parts, italic, bold, hidden, tag_stack,  \* the _PoemHTMLToMarkdown object
    open, fed,                               \* what was fed to it (history)
    pc, pod_md, poem_url, jina_data,         \* main()'s locals
    nuxt_result, data,
    out_file, prior, outcome                 \* poem.json, poem.json as main()
                                             \* found it, how main() ended

vars == <<input, output, called, parts, italic, bold, hidden, tag_stack,
          open, fed, pc, pod_md, poem_url, jina_data, nuxt_result, data,
          out_file, prior, outcome>>

callVars == <<input, output, called>>
convVars == <<parts, italic, bold, hidden, tag_stack, open, fed>>
mainVars == <<pc, pod_md, poem_url, jina_data, nuxt_result, data, out_file,
              prior, outcome>>

(***************************************************************************)
(* Texts                                                                   *)
(***************************************************************************)
Run(c, n) == [c |-> c, n |-> n]

IsSpace(r) == r.c \in {" ", "\n"}

\* len(text): the number of characters
RECURSIVE Chars(_)
Chars(t) == IF t = <<>> THEN 0 ELSE Head(t).n + Chars(Tail(t))

RECURSIVE Count(_, _)
Count(t, c) ==
    IF t = <<>> THEN 0
    ELSE (IF Head(t).c = c THEN Head(t).n ELSE 0) + Count(Tail(t), c)

RECURSIVE LStrip(_)
LStrip(t) == IF t # <<>> /\ IsSpace(Head(t)) THEN LStrip(Tail(t)) ELSE t

RECURSIVE RStrip(_)
RStrip(t) ==
    IF t # <<>> /\ IsSpace(t[Len(t)])
    THEN RStrip(SubSeq(t, 1, Len(t) - 1))
    ELSE t

Strip(t) == LStrip(RStrip(t))

\* str.lower() on a token: the only upper-case spelling the model uses
LowerTok(c) == IF c = "<SCRIPT" THEN "<script" ELSE c

Lower(t) == [i \in DOMAIN t |-> Run(LowerTok(t[i].c), t[i].n)]

\* tok in text, for a token that is one word of the text
Contains(t, tok) == \E i \in DOMAIN t : t[i].c = tok

(***************************************************************************)
(* Validation                                                              *)
(***************************************************************************)
MaxPoemChars == 20000
MaxPoemBreaks == 1200

BLOCKED_TOKENS ==
    { "window.__nuxt__", "primarynavigation_node", "cachetags", "<script",
      "poetry foundation homepage", "sign up to receive the poem of the day",
      "poetrymagazine archive", "advertise withpoetry" }

\* data.get("poem") or ""
PoemOf(d) == IF "poem" \in DOMAIN d THEN d.poem ELSE <<>>

is_valid(d) ==
    LET poem == Strip(PoemOf(d))
        low  == Lower(poem)
    IN  IF poem = <<>> THEN FALSE
        ELSE IF Chars(poem) > MaxPoemChars \/ Count(poem, "\n") > MaxPoemBreaks
             THEN FALSE
        ELSE ~ \E tok \in BLOCKED_TOKENS : Contains(low, tok)

(***************************************************************************)
(* Markdown lines and URLs                                                 *)
(*                                                                         *)
(* A Markdown text is a sequence of lines.  A line is a record             *)
(*   [s |-> its text with a link flattened to its label, url, md]          *)
(* standing for the plain line s (url = ""), for the inline link           *)
(* "[s](url)" (md = TRUE) or for the bare URL url (s = url, md = FALSE).   *)
(* The regular expressions of the source are tables over the line texts    *)
(* the model uses.                                                         *)
(***************************************************************************)
T(s) == [s |-> s, url |-> "", md |-> FALSE]
Link(label, url) == [s |-> label, url |-> url, md |-> TRUE]
Bare(url) == [s |-> url, url |-> url, md |-> FALSE]

U111 == "https://www.poetryfoundation.org/poems/111/one"
U222 == "https://www.poetryfoundation.org/poems/222/two"
U333 == "https://www.poetryfoundation.org/poems/333/poem-of-the-day"
U444 == "https://www.poetryfoundation.org/poetrymagazine/poems/444/four"
U444Dot == "https://www.poetryfoundation.org/poetrymagazine/poems/444/four."
UPod == "https://www.poetryfoundation.org/poems/poem-of-the-day"
UExt == "https://example.com/about"

\* _POEM_URL_RE.match(url): .../poems/<digits>... or .../poetrymagazine/poems/<digits>...
MatchesPoemUrlRe(url) == url \in {U111, U222, U333, U444, U444Dot}

\* "poem-of-the-day" in url.lower()
MentionsPod(url) == url \in {U333, UPod}

is_individual_poem(url) == MatchesPoemUrlRe(url) /\ ~ MentionsPod(url)

\* re.sub(r"[\s\"'`.,;:!?\])}>]+$", "", url.strip())
clean_url(url) == IF url = U444Dot THEN U444 ELSE url

\* re.sub(r"\[([^\]]+)\]\([^)]+\)", r"\1", text) on one line
strip_md_links(ln) == IF ln.md /\ ln.s # "" THEN T(ln.s) ELSE ln

(***************************************************************************)
(* URL extraction                                                          *)
(***************************************************************************)
NotFound == "None"

\* indices of the matches of r"\[([^\]]*)\]\((https?://[^)]+)\)", in text order
MdLinkMatches(markdown) == {i \in DOMAIN markdown : markdown[i].md}

\* indices of the matches of _POEM_URL_RE, in text order
PoemUrlMatches(markdown) ==
    {i \in DOMAIN markdown : MatchesPoemUrlRe(markdown[i].url)}

Min(S) == CHOOSE x \in S : \A y \in S : x <= y
Max(S) == CHOOSE x \in S : \A y \in S : x >= y

extract_poem_url(markdown) ==
    LET linked == {i \in MdLinkMatches(markdown) :
                       is_individual_poem(clean_url(markdown[i].url))}
        bare   == {i \in PoemUrlMatches(markdown) :
                       is_individual_poem(clean_url(markdown[i].url))}
    IN  IF linked # {} THEN clean_url(markdown[Min(linked)].url)
        ELSE IF bare # {} THEN clean_url(markdown[Min(bare)].url)
        ELSE NotFound

(***************************************************************************)
(* Markdown -> poem parsing                                                *)
(*                                                                         *)
(* The input of parse_poem_markdown is [hdr, htitle, lines]: hdr says      *)
(* whether the text holds "Markdown Content:", htitle is the value of the  *)
(* header's "Title:" line ("" when there is none), lines are the lines of  *)
(* md_body.  Indices are Python's (from 0): line i is lines[i + 1].        *)
(***************************************************************************)
Doc(lines) == [hdr |-> FALSE, htitle |-> "", lines |-> lines]
JinaDoc(htitle, lines) == [hdr |-> TRUE, htitle |-> htitle, lines |-> lines]

PodHeading == "Poem of the Day | Poetry Foundation"

\* set(s.strip()) == {"="}
IsUnderline(s) == s \in {"=", "==="}

\* title.split(" | ", 1)[0].strip() when " | " in title
CutSiteSuffix(s) == IF s = PodHeading THEN "Poem of the Day" ELSE s

\* s.lower().startswith("by ")
StartsWithBy(s) ==
    s \in {"By Jane Poet", "by Jane Poet 1900-1980", "By Jane Poet Listen"}

\* s[3:].strip()
AfterBy(s) ==
    CASE s = "By Jane Poet" -> "Jane Poet"
      [] s = "by Jane Poet 1900-1980" -> "Jane Poet 1900-1980"
      [] s = "By Jane Poet Listen" -> "Jane Poet Listen"
      [] OTHER -> s

\* s.lower() == "by"
IsByAlone(s) == s \in {"By", "BY"}

\* re.sub(r"\s*Listen.*$", "", author, flags=re.I).strip(), then
\* re.sub(r"\s*\d{4}\s*[-...].*$", "", author).strip()
CleanAuthor(a) ==
    CASE a = "Jane Poet 1900-1980" -> "Jane Poet"
      [] a = "Jane Poet Listen" -> "Jane Poet"
      [] a = "Listen" -> ""
      [] OTHER -> a

BOILERPLATE_EXACT ==
    {"Share", "Play Audio", "Donate", "Listen", "Read More", "Read more"}

\* _PRE_SKIP_PATTERN.match(s)
PreSkip(s) ==
    s \in {"Share", "Donate", "Listen", "Read More", "Read more",
           "Related Poems", "Copyright 2020", "Source: Poetry",
           "April is the cruellest month", "Sign Up"}

\* _POST_STOP_PATTERN.match(s)
PostStop(s) == s \in {"Donate", "Related Poems", "Sign Up"}

\* re.match(r"^#{2,}\s", s)
IsHashHeading(s) == s \in {"## More"}

\* re.match(r"^[-_*]{3,}\s*$", s)
IsRule(s) == s \in {"---", "***"}

\* re.match(r"^(Copyright|Source[:\s])", s, re.I)
IsCopyright(s) == s \in {"Copyright 2020", "Source: Poetry"}

\* the text of a line after strip_md_links: a link left in place is one with
\* an empty label, "[](url)"
EmptyImage == "[](url)"
Stripped(ln) == IF ln.md THEN EmptyImage ELSE ln.s

\* s.startswith("[](")
IsEmptyImage(s) == s = EmptyImage

\* len(s) for the line texts the model uses
LineLen(s) ==
    CASE s \in {"Line1", "Line2", "Share"} -> 5
      [] s = "<SCRIPT" -> 7
      [] s = "By" -> 2
      [] s \in {"===", "---"} -> 3
      [] s = "Jane Poet" -> 9
      [] s \in {"Actual Title", "By Jane Poet"} -> 12
      [] s = "April is the cruellest month" -> 28
      [] s = PodHeading -> 35
      [] s \in {U111, U222} -> 46
      [] OTHER -> 10

AuthorWindow == 30

\* the text of one line, and "\n".join(lines)
LineText(ln) ==
    IF Stripped(ln) = "" THEN <<>>
    ELSE <<Run(Stripped(ln), LineLen(Stripped(ln)))>>

RECURSIVE JoinLines(_)
JoinLines(ls) ==
    IF ls = <<>> THEN <<>>
    ELSE IF Len(ls) = 1 THEN LineText(ls[1])
    ELSE LineText(ls[1]) \o <<Run("\n", 1)>> \o JoinLines(Tail(ls))

\* [title, title_end_idx] after the loop of lines 479-482
TitleScan(lines) ==
    LET hits == {i \in 0 .. Len(lines) - 2 :
                    /\ Stripped(lines[i + 1]) # ""
                    /\ IsUnderline(Stripped(lines[i + 2]))}
    IN  IF hits = {} THEN [title |-> "", title_end_idx |-> 0]
        ELSE [title |-> Stripped(lines[Max(hits) + 1]),
              title_end_idx |-> Max(hits) + 2]

\* the first non-blank line after line i (lines 502-506)
NextNonBlank(lines, i) ==
    LET js == {j \in i + 1 .. Len(lines) - 1 : Stripped(lines[j + 1]) # ""}
    IN  IF js = {} THEN [author |-> "", author_end_idx |-> -1]
        ELSE [author |-> Stripped(lines[Min(js) + 1]),
              author_end_idx |-> Min(js) + 1]

\* [author, author_end_idx] after the loop of lines 495-511, entered at i
RECURSIVE AuthorScan(_, _, _)
AuthorScan(lines, title_end_idx, i) ==
    IF i >= Len(lines) THEN [author |-> "", author_end_idx |-> title_end_idx]
    ELSE LET stripped == Stripped(lines[i + 1])
         IN  IF StartsWithBy(stripped)
             THEN [author |-> AfterBy(stripped), author_end_idx |-> i + 1]
             ELSE IF IsByAlone(stripped)
             THEN LET nb == NextNonBlank(lines, i)
                  IN  IF nb.author_end_idx = -1
                      THEN [author |-> "", author_end_idx |-> title_end_idx]
                      ELSE nb
             ELSE IF i > title_end_idx + AuthorWindow
             THEN [author |-> "", author_end_idx |-> title_end_idx]
             ELSE AuthorScan(lines, title_end_idx, i + 1)

\* body_lines after the loop of lines 520-546, entered at line i
RECURSIVE BodyScan(_, _, _, _)
BodyScan(lines, i, started, body_lines) ==
    IF i >= Len(lines) THEN body_lines
    ELSE LET ln == lines[i + 1]
             stripped == Stripped(ln)
         IN  IF ~ started /\ (stripped = "" \/ stripped \in BOILERPLATE_EXACT)
             THEN BodyScan(lines, i + 1, FALSE, body_lines)
             ELSE IF ~ started /\ IsEmptyImage(stripped)
             THEN BodyScan(lines, i + 1, FALSE, body_lines)
             ELSE IF ~ started /\ PreSkip(stripped)
             THEN BodyScan(lines, i + 1, FALSE, body_lines)
             ELSE IF PostStop(stripped) \/ IsHashHeading(stripped)
                     \/ IsRule(stripped) \/ IsCopyright(stripped)
             THEN body_lines
             ELSE BodyScan(lines, i + 1, TRUE, Append(body_lines, ln))

RECURSIVE TrimLeadingBlank(_)
TrimLeadingBlank(ls) ==
    IF ls # <<>> /\ LineText(ls[1]) = <<>> THEN TrimLeadingBlank(Tail(ls)) ELSE ls

RECURSIVE TrimTrailingBlank(_)
TrimTrailingBlank(ls) ==
    IF ls # <<>> /\ LineText(ls[Len(ls)]) = <<>>
    THEN TrimTrailingBlank(SubSeq(ls, 1, Len(ls) - 1))
    ELSE ls

parse_poem_markdown(text) ==
    LET jina_title == IF text.hdr THEN text.htitle ELSE ""
        lines  == [i \in DOMAIN text.lines |-> strip_md_links(text.lines[i])]
        ts     == TitleScan(lines)
        title0 == CutSiteSuffix(ts.title)
        title  == IF jina_title # "" THEN jina_title ELSE title0
        as     == AuthorScan(lines, ts.title_end_idx, ts.title_end_idx)
        author == CleanAuthor(as.author)
        body   == TrimTrailingBlank(TrimLeadingBlank(
                      BodyScan(lines, as.author_end_idx, FALSE, <<>>)))
    IN  [title |-> title, author |-> author, poem |-> JoinLines(body)]

(***************************************************************************)
(* Calls of the pure functions: the argument is drawn in the initial       *)
(* state, the action applies the function.                                 *)
(***************************************************************************)
SeqsUpTo(S, n) == UNION {[1 .. k -> S] : k \in 0 .. n}

ConvIdle ==
    /\ parts = <<>> /\ italic = 0 /\ bold = 0 /\ hidden = 0
    /\ tag_stack = <<>> /\ open = <<>> /\ fed = 0

MainIdle ==
    /\ pc = "idle" /\ pod_md = <<>> /\ poem_url = NotFound
    /\ jina_data = <<>> /\ nuxt_result = <<>> /\ data = <<>>
    /\ out_file = <<>> /\ prior = <<>> /\ outcome = "idle"

\* ---- is_valid ----
MaxRuns == 3

BodySizes == {1, MaxPoemBreaks, MaxPoemBreaks + 1, MaxPoemChars, MaxPoemChars + 1}

BodyRuns ==
    {Run(c, n) : c \in {"x", " ", "\n"}, n \in BodySizes}
        \cup {Run("<SCRIPT", 7), Run("cachetags", 9)}

ValidInputs ==
    {[title |-> "t", author |-> "a"]}
        \cup {[title |-> "t", author |-> "a", poem |-> b] :
                  b \in SeqsUpTo(BodyRuns, MaxRuns)}

InitValid ==
    /\ input \in ValidInputs /\ output = FALSE /\ called = FALSE
    /\ ConvIdle /\ MainIdle

CallIsValid ==
    /\ ~ called
    /\ output' = is_valid(input)
    /\ called' = TRUE
    /\ UNCHANGED <<input, convVars, mainVars>>

SpecValid == InitValid /\ [][CallIsValid]_vars

\* C9: is_valid rejects every record whose body has more than 20,000
\* characters or more than 1,200 line breaks, leading and trailing whitespace
\* counted, and every record whose body is empty or all whitespace.
C9_RejectsOversizeOrBlank ==
    called =>
        LET body == PoemOf(input)
        IN  (\/ Chars(body) > MaxPoemChars
             \/ Count(body, "\n") > MaxPoemBreaks
             \/ Strip(body) = <<>>) => output = FALSE

\* ---- extract_poem_url ----
MaxUrlLines == 3

UrlLines ==
    { Link("Read More", U222), Link("READ MORE", U111), Link("Other", U111),
      Link("Read More", U333), Link("Read More", UExt),
      Bare(U444Dot), Bare(UPod), T("Line1") }

InitUrl ==
    /\ input \in SeqsUpTo(UrlLines, MaxUrlLines)
    /\ output = NotFound /\ called = FALSE
    /\ ConvIdle /\ MainIdle

CallExtractPoemUrl ==
    /\ ~ called
    /\ output' = extract_poem_url(input)
    /\ called' = TRUE
    /\ UNCHANGED <<input, convVars, mainVars>>

SpecUrl == InitUrl /\ [][CallExtractPoemUrl]_vars

\* label.lower() == "read more"
IsReadMore(label) == label \in {"Read More", "Read more", "READ MORE"}

\* C5: a link labelled "Read More" (in any case) to an individual-poem URL
\* wins over every other link; without one the first URL matching the
\* poem-URL pattern is returned; a poem-of-the-day URL is never returned.
C5_ReadMorePreferred ==
    called =>
        LET labelled == {i \in DOMAIN input :
                            /\ input[i].md /\ IsReadMore(input[i].s)
                            /\ is_individual_poem(clean_url(input[i].url))}
            matching == {i \in DOMAIN input :
                            is_individual_poem(clean_url(input[i].url))}
        IN  /\ labelled # {} =>
                output \in {clean_url(input[i].url) : i \in labelled}
            /\ (labelled = {} /\ matching # {}) =>
                output = clean_url(input[Min(matching)].url)
            /\ ~ MentionsPod(output)

\* ---- parse_poem_markdown ----
MaxParseLines == 5

ParseLines ==
    { T(PodHeading), T("Actual Title"), T("==="), T("By Jane Poet"),
      T("Line1"), T("") }

ParseDocs == {Doc(ls) : ls \in SeqsUpTo(ParseLines, MaxParseLines)}

InitParse ==
    /\ input \in ParseDocs
    /\ output = <<>> /\ called = FALSE
    /\ ConvIdle /\ MainIdle

CallParsePoemMarkdown ==
    /\ ~ called
    /\ output' = parse_poem_markdown(input)
    /\ called' = TRUE
    /\ UNCHANGED <<input, convVars, mainVars>>

SpecParse == InitParse /\ [][CallParsePoemMarkdown]_vars

\* line h of ls is a setext heading: not blank, and the next line is made
\* of "=" only
IsSetextHeading(ls, h) ==
    /\ h < Len(ls) /\ ls[h].s # ""
    /\ IsUnderline(ls[h + 1].s)

\* the lines of ls that begin with "By "
ByLines(ls) == {a \in DOMAIN ls : StartsWithBy(ls[a].s)}

\* C13: in a text without a metadata header whose one "By " line is not
\* itself a heading and comes after a setext heading, the title is the last
\* setext heading before that line, its " | " suffix cut, and the author is
\* read from that line, whatever headings follow it.
C13_TitleIsLastHeadingBeforeAuthor ==
    (called /\ ~ input.hdr) =>
        \A a \in ByLines(input.lines) :
            LET ls == input.lines
                before == {h \in DOMAIN ls : IsSetextHeading(ls, h) /\ h + 2 <= a}
            IN  (/\ ByLines(ls) = {a}
                 /\ ~ IsSetextHeading(ls, a)
                 /\ before # {}) =>
                    /\ output.title = CutSiteSuffix(ls[Max(before)].s)
                    /\ output.author = CleanAuthor(AfterBy(ls[a].s))

(***************************************************************************)
(* HTML -> Markdown converter                                              *)
(*                                                                         *)
(* HTMLParser.feed calls handle_starttag, handle_endtag and handle_data in *)
(* the order of the fragment; each call is one action.  parts is a         *)
(* sequence of texts.  A tag's attributes are reduced to its style.        *)
(* open is history: the elements a browser holds open (a void <br> is      *)
(* never open, an end tag closes the nearest open element of its name and  *)
(* is ignored when there is none).                                         *)
(***************************************************************************)
HiddenStyle == "display:none"
ItalicStyle == "font-style:italic"

is_italic_style(style) == style = ItalicStyle
is_hidden_style(style) == style = HiddenStyle

Entry(tag, style, hidden_open) ==
    [tag |-> tag, style |-> style, hidden_open |-> hidden_open]

\* "".join(parts)
RECURSIVE Flatten(_)
Flatten(ps) == IF ps = <<>> THEN <<>> ELSE Head(ps) \o Flatten(Tail(ps))

\* parts after the loop of lines 239-240, and the whitespace it took off
RECURSIVE PopTrailingWs(_, _)
PopTrailingWs(ps, ws) ==
    IF ps # <<>> /\ Strip(ps[Len(ps)]) = <<>>
    THEN PopTrailingWs(SubSeq(ps, 1, Len(ps) - 1), ps[Len(ps)] \o ws)
    ELSE [parts |-> ps, trailing_ws |-> ws]

\* the parser object: [parts, italic, bold, hidden, tag_stack]
NewParser ==
    [parts |-> <<>>, italic |-> 0, bold |-> 0, hidden |-> 0, tag_stack |-> <<>>]

handle_starttag(P, tag, style) ==
    IF is_hidden_style(style)
    THEN [P EXCEPT !.hidden = P.hidden + 1,
                   !.tag_stack = Append(P.tag_stack, Entry(tag, "", TRUE))]
    ELSE LET Q == [P EXCEPT !.tag_stack =
                                Append(P.tag_stack, Entry(tag, style, FALSE))]
         IN  IF P.hidden # 0 THEN Q
             ELSE IF tag \in {"i", "em"} THEN
                 [Q EXCEPT !.parts = Append(P.parts, <<Run("_", 1)>>),
                           !.italic = P.italic + 1]
             ELSE IF tag = "div" /\ is_italic_style(style) THEN
                 [Q EXCEPT !.parts = Append(P.parts, <<Run("_", 1)>>),
                           !.italic = P.italic + 1]
             ELSE IF tag \in {"b", "strong"} THEN
                 [Q EXCEPT !.parts = Append(P.parts, <<Run("**", 2)>>),
                           !.bold = P.bold + 1]
             ELSE IF tag = "br" THEN
                 [Q EXCEPT !.parts = Append(P.parts, <<Run("\n", 1)>>)]
             ELSE Q

handle_endtag(P, tag) ==
    LET popped == IF P.tag_stack # <<>> THEN P.tag_stack[Len(P.tag_stack)]
                  ELSE Entry("", "", FALSE)
        Q == IF P.tag_stack # <<>>
             THEN [P EXCEPT !.tag_stack =
                                SubSeq(P.tag_stack, 1, Len(P.tag_stack) - 1)]
             ELSE P
    IN  IF popped.hidden_open
        THEN [Q EXCEPT !.hidden = IF P.hidden - 1 > 0 THEN P.hidden - 1 ELSE 0]
        ELSE IF P.hidden # 0 THEN Q
        ELSE IF tag \in {"i", "em"} THEN
            IF P.italic > 0
            THEN [Q EXCEPT !.parts = Append(P.parts, <<Run("_", 1)>>),
                           !.italic = P.italic - 1]
            ELSE Q
        ELSE IF tag = "div" THEN
            IF P.italic > 0 /\ is_italic_style(popped.style)
            THEN LET w == PopTrailingWs(P.parts, <<>>)
                     closed == Append(w.parts, <<Run("_", 1)>>)
                 IN  [Q EXCEPT !.parts = IF w.trailing_ws # <<>>
                                         THEN Append(closed, w.trailing_ws)
                                         ELSE closed,
                               !.italic = P.italic - 1]
            ELSE Q
        ELSE IF tag \in {"b", "strong"} THEN
            IF P.bold > 0
            THEN [Q EXCEPT !.parts = Append(P.parts, <<Run("**", 2)>>),
                           !.bold = P.bold - 1]
            ELSE Q
        ELSE IF tag = "p" THEN
            [Q EXCEPT !.parts = Append(P.parts, <<Run("\n", 2)>>)]
        ELSE Q

\* data.replace('\r\n', '').replace('\r', '').replace('\n', '')
Cleaned(d) == SelectSeq(d, LAMBDA r : r.c # "\n")

\* faulty variant: source line breaks in character data are kept
handle_data_KeepsBreaks(P, d) ==
    IF P.hidden = 0 /\ d # <<>>
    THEN [P EXCEPT !.parts = Append(P.parts, d)]
    ELSE P

handle_data(P, d) ==
    IF P.hidden = 0 /\ Cleaned(d) # <<>>
    THEN [P EXCEPT !.parts = Append(P.parts, Cleaned(d))]
    ELSE P

get_markdown(P) == Flatten(P.parts)

\* ---- a fragment is the sequence of the parser's events ----
STag(tag, style) == [k |-> "start", tag |-> tag, style |-> style, d |-> <<>>]
ETag(tag) == [k |-> "end", tag |-> tag, style |-> "", d |-> <<>>]
Data(d) == [k |-> "data", tag |-> "", style |-> "", d |-> d]

HandleEvent(P, e) ==
    CASE e.k = "start" -> handle_starttag(P, e.tag, e.style)
      [] e.k = "end" -> handle_endtag(P, e.tag)
      [] OTHER -> handle_data(P, e.d)

\* HTMLParser.feed
RECURSIVE Feed(_, _)
Feed(P, fragment) ==
    IF fragment = <<>> THEN P
    ELSE Feed(HandleEvent(P, Head(fragment)), Tail(fragment))

\* the same text with adjacent runs of one whitespace character merged
RECURSIVE Merge(_)
Merge(t) ==
    IF Len(t) < 2 THEN t
    ELSE IF IsSpace(t[1]) /\ t[1].c = t[2].c
    THEN Merge(<<Run(t[1].c, t[1].n + t[2].n)>> \o SubSeq(t, 3, Len(t)))
    ELSE <<t[1]>> \o Merge(Tail(t))

\* re.sub(r"\n{3,}", "\n\n", text)
CollapseBreaks(t) ==
    LET m == Merge(t)
    IN  [i \in DOMAIN m |->
            IF m[i].c = "\n" /\ m[i].n >= 3 THEN Run("\n", 2) ELSE m[i]]

\* "\n".join(ln.rstrip() for ln in text.splitlines())
RECURSIVE RstripLines(_)
RstripLines(t) ==
    IF t = <<>> THEN <<>>
    ELSE IF t[1].c = " " /\ (Len(t) = 1 \/ t[2].c = "\n")
    THEN RstripLines(Tail(t))
    ELSE <<t[1]>> \o RstripLines(Tail(t))

html_to_markdown(html_fragment) ==
    LET text == get_markdown(Feed(NewParser, html_fragment))
    IN  Merge(Strip(RstripLines(Merge(CollapseBreaks(text)))))

\* ---- the parser fed one event at a time ----
MaxFeed == 4

StartTags ==
    { <<"i", "">>, <<"b", "">>, <<"p", "">>, <<"br", "">>, <<"span", "">>,
      <<"span", HiddenStyle>>, <<"div", ItalicStyle>> }

EndTags == {"i", "b", "p", "span", "div"}

VoidTags == {"br"}

\* history: the open elements after a start tag, after an end tag
OpenAfterStart(o, tag, style) ==
    IF tag \in VoidTags THEN o
    ELSE Append(o, [tag |-> tag, hid |-> is_hidden_style(style)])

OpenAfterEnd(o, tag) ==
    LET ks == {k \in DOMAIN o : o[k].tag = tag}
    IN  IF ks = {} THEN o ELSE SubSeq(o, 1, Max(ks) - 1)

\* history: is the fragment inside a display:none element here?
InHidden(o) == \E k \in DOMAIN o : o[k].hid

Parser ==
    [parts |-> parts, italic |-> italic, bold |-> bold, hidden |-> hidden,
     tag_stack |-> tag_stack]

Becomes(P) ==
    /\ parts' = P.parts /\ italic' = P.italic /\ bold' = P.bold
    /\ hidden' = P.hidden /\ tag_stack' = P.tag_stack

FeedStartTag(tag, style) ==
    /\ pc = "feed" /\ fed < MaxFeed
    /\ fed' = fed + 1
    /\ open' = OpenAfterStart(open, tag, style)
    /\ Becomes(handle_starttag(Parser, tag, style))
    /\ UNCHANGED <<callVars, mainVars>>

FeedEndTag(tag) ==
    /\ pc = "feed" /\ fed < MaxFeed
    /\ fed' = fed + 1
    /\ open' = OpenAfterEnd(open, tag)
    /\ Becomes(handle_endtag(Parser, tag))
    /\ UNCHANGED <<callVars, mainVars>>

\* The data fed: a word, a space or a source line break.  The word is
\* "gloss" inside a display:none element and "text" outside, so that the
\* output shows where a word came from.
DataFed ==
    { IF InHidden(open) THEN <<Run("gloss", 5)>> ELSE <<Run("text", 4)>>,
      <<Run(" ", 1)>>, <<Run("\n", 1)>> }

FeedData(d) ==
    /\ pc = "feed" /\ fed < MaxFeed
    /\ fed' = fed + 1
    /\ Becomes(handle_data(Parser, d))
    /\ UNCHANGED <<callVars, mainVars, open>>

InitConv ==
    /\ ConvIdle
    /\ input = <<>> /\ output = <<>> /\ called = FALSE
    /\ pc = "feed" /\ pod_md = <<>> /\ poem_url = NotFound
    /\ jina_data = <<>> /\ nuxt_result = <<>> /\ data = <<>>
    /\ out_file = <<>> /\ prior = <<>> /\ outcome = "idle"

NextConv ==
    \/ \E st \in StartTags : FeedStartTag(st[1], st[2])
    \/ \E tag \in EndTags : FeedEndTag(tag)
    \/ \E d \in DataFed : FeedData(d)

SpecConv == InitConv /\ [][NextConv]_vars

\* C6: no text that lies between the opening of a display:none element and
\* its matching close appears in the converter's output.
C6_HiddenTextSuppressed == ~ Contains(Flatten(parts), "gloss")

\* the delimiters emitted so far
Emitted(ps, delim) == Count(Flatten(ps), delim)

\* history: no element that opens an italic region is open (the only <div>
\* fed is the italic block container)
NoItalicOpen(o) == \A k \in DOMAIN o : o[k].tag \notin {"i", "em", "div"}

\* history: this step is the end tag of the italic block container that is
\* the innermost open element, outside every display:none element
ClosesItalicBlock ==
    /\ FeedEndTag("div")
    /\ open # <<>> /\ open[Len(open)].tag = "div"
    /\ ~ InHidden(open)

\* C12: the italic, bold and hidden depth counters never go below zero; an
\* end tag emits a closing delimiter only for an open region; and when the
\* end tag of an italic block container leaves no italic element open,
\* every "_" emitted has its partner (their number is even).
C12_DelimitersMatched ==
    [][ /\ italic' >= 0 /\ bold' >= 0 /\ hidden' >= 0
        /\ \A tag \in EndTags :
              FeedEndTag(tag) =>
                  /\ Emitted(parts', "_") > Emitted(parts, "_") => italic > 0
                  /\ Emitted(parts', "**") > Emitted(parts, "**") => bold > 0
        /\ (ClosesItalicBlock /\ NoItalicOpen(open')) =>
              Emitted(parts', "_") % 2 = 0 ]_vars

\* ---- html_to_markdown applied to a fragment, then to its own result ----
MaxFragment == 3

FragmentEvents ==
    { STag("i", ""), ETag("i"), STag("br", ""), ETag("p"),
      Data(<<Run("text", 4)>>), Data(<<Run(" ", 1)>>), Data(<<Run("\n", 1)>>) }

Fragments == SeqsUpTo(FragmentEvents, MaxFragment)

\* A converted text holds no "<" and no "&", so the parser hands all of it
\* to handle_data.
AsFragment(text) == <<Data(text)>>

InitIdem ==
    /\ input \in Fragments
    /\ output = <<>> /\ called = FALSE
    /\ ConvIdle /\ MainIdle

\* md = html_to_markdown(html_fragment)
CallHtmlToMarkdown ==
    /\ ~ called /\ output = <<>>
    /\ output' = <<html_to_markdown(input)>>
    /\ UNCHANGED <<input, called, convVars, mainVars>>

\* html_to_markdown(md)
CallHtmlToMarkdownAgain ==
    /\ ~ called /\ Len(output) = 1
    /\ output' = Append(output, html_to_markdown(AsFragment(output[1])))
    /\ called' = TRUE
    /\ UNCHANGED <<input, convVars, mainVars>>

NextIdem == CallHtmlToMarkdown \/ CallHtmlToMarkdownAgain

SpecIdem == InitIdem /\ [][NextIdem]_vars

\* the text of a fragment that holds no tags
RECURSIVE InputText(_)
InputText(fragment) ==
    IF fragment = <<>> THEN <<>>
    ELSE Head(fragment).d \o InputText(Tail(fragment))

NoTags(fragment) == \A k \in DOMAIN fragment : fragment[k].k = "data"

\* collapse of 3 or more newlines to 2, right-trim of lines, trim of the whole
Normalised(t) == Merge(Strip(RstripLines(Merge(CollapseBreaks(t)))))

\* a text with its line breaks deleted
WithoutBreaks(t) == Merge(SelectSeq(t, LAMBDA r : r.c # "\n"))

Str(ev) == [str |-> TRUE, ev |-> ev]
NonStr == [str |-> FALSE, ev |-> <<>>]
Page(d) == [script |-> TRUE, json_ok |-> TRUE, data |-> d]

MinBreaks == 3
MinTextLen == 50
MaxEpigraphLen == 300

\* item.lstrip(): leading whitespace-only text removed
RECURSIVE LStripItem(_)
LStripItem(ev) ==
    IF ev # <<>> /\ ev[1].k = "data" /\ Strip(ev[1].d) = <<>>
    THEN LStripItem(Tail(ev)) ELSE ev

\* item.lstrip().startswith("<p")
StartsWithP(ev) ==
    LET l == LStripItem(ev)
    IN  l # <<>> /\ l[1].k = "start" /\ l[1].tag \in {"p", "pre"}

\* item.count("<br")
BrCount(ev) == Cardinality({i \in DOMAIN ev : ev[i].k = "start" /\ ev[i].tag = "br"})

\* re.sub(r"<[^>]+>", "", item): the texts between the tags
RECURSIVE TagsStripped(_)
TagsStripped(ev) ==
    IF ev = <<>> THEN <<>>
    ELSE (IF ev[1].k = "data" THEN ev[1].d ELSE <<>>) \o TagsStripped(Tail(ev))

TextLen(ev) == Chars(Strip(TagsStripped(ev)))

IsHiddenSpanOpen(e) == e.k = "start" /\ e.tag = "span" /\ is_hidden_style(e.style)
IsSpanClose(e) == e.k = "end" /\ e.tag = "span"

\* re.sub(r'<span[^>]*display:\s*none[^>]*>.*?</span>', "", item): each
\* hidden span start tag is removed with everything up to the next </span>
RECURSIVE RemoveHiddenSpans(_)
RemoveHiddenSpans(ev) ==
    IF ev = <<>> THEN <<>>
    ELSE LET closes == {j \in 2 .. Len(ev) : IsSpanClose(ev[j])}
         IN  IF IsHiddenSpanOpen(ev[1]) /\ closes # {}
             THEN RemoveHiddenSpans(SubSeq(ev, Min(closes) + 1, Len(ev)))
             ELSE <<ev[1]>> \o RemoveHiddenSpans(Tail(ev))

\* "<a " in visible
HasVisibleLinks(ev) ==
    LET visible == RemoveHiddenSpans(ev)
    IN  \E i \in DOMAIN visible : visible[i].k = "start" /\ visible[i].tag = "a"

\* br_ratio < num / den, for br_ratio = br_count / max(1, text_len)
RatioBelow(ev, num, den) ==
    LET text_len == TextLen(ev)
    IN  BrCount(ev) * den < num * (IF text_len > 1 THEN text_len ELSE 1)

\* faulty variant: item.count("<br") <= 3 instead of < 3
NotParagraph_OffByOne(item) ==
    \/ ~ item.str
    \/ ~ StartsWithP(item.ev) \/ BrCount(item.ev) <= MinBreaks
    \/ TextLen(item.ev) < MinTextLen

\* lines 338-347: the entry is no candidate at all
NotParagraph(item) ==
    \/ ~ item.str
    \/ ~ StartsWithP(item.ev) \/ BrCount(item.ev) < MinBreaks
    \/ TextLen(item.ev) < MinTextLen

\* faulty variant: the prose rule tested against the threshold of the sparse rule
Discarded_OneThreshold(item) ==
    \/ HasVisibleLinks(item.ev) /\ RatioBelow(item.ev, 3, 1000)
    \/ RatioBelow(item.ev, 3, 1000)

\* lines 364-367: prose, or too few line breaks for a poem
Discarded(item) ==
    \/ HasVisibleLinks(item.ev) /\ RatioBelow(item.ev, 1, 100)
    \/ RatioBelow(item.ev, 3, 1000)

\* text_len * (1 + br_ratio * 100), in exact arithmetic
Score(item) == TextLen(item.ev) + 100 * BrCount(item.ev)

\* the index of best_html after the loop of lines 337-374, 0 for ""
RECURSIVE BestFrom(_, _, _, _)
BestFrom(d, i, best, best_score) ==
    IF i > Len(d) THEN best
    ELSE IF NotParagraph(d[i]) \/ Discarded(d[i])
    THEN BestFrom(d, i + 1, best, best_score)
    ELSE IF Score(d[i]) > best_score
    THEN BestFrom(d, i + 1, i, Score(d[i]))
    ELSE BestFrom(d, i + 1, best, best_score)

\* re.match(r'<div\s[^>]*font-style:\s*italic[^>]*>', item, re.I)
IsItalicDiv(item) ==
    /\ item.str /\ item.ev # <<>>
    /\ item.ev[1].k = "start" /\ item.ev[1].tag = "div"
    /\ is_italic_style(item.ev[1].style)

\* epigraph after the loop of lines 382-393
RECURSIVE EpigraphFrom(_, _, _)
EpigraphFrom(d, i, epigraph) ==
    IF i > Len(d) THEN epigraph
    ELSE LET text == html_to_markdown(d[i].ev)
         IN  IF IsItalicDiv(d[i]) /\ text # <<>> /\ Chars(text) < MaxEpigraphLen
             THEN EpigraphFrom(d, i + 1, text)
             ELSE EpigraphFrom(d, i + 1, epigraph)

\* text.replace("_", "").replace("*", "")
Unstyled(t) == SelectSeq(t, LAMBDA r : r.c \notin {"_", "**"})

\* a in b, for texts whose words are whole
IsSubText(a, b) ==
    LET x == Merge(a)
        y == Merge(b)
    IN  \E k \in 0 .. Len(y) - Len(x) : SubSeq(y, k + 1, k + Len(x)) = x

\* epi_clean of lines 408-410
EpiClean(epigraph) ==
    LET e == Strip(epigraph)
    IN  IF Len(e) >= 2 /\ e[1].c = "_" /\ e[Len(e)].c = "_"
        THEN Strip(SubSeq(e, 2, Len(e) - 1))
        ELSE e

NoResult == [found |-> FALSE]

extract_poem_from_nuxt(page_html) ==
    IF ~ page_html.script \/ ~ page_html.json_ok THEN NoResult
    ELSE LET d == page_html.data
             best == BestFrom(d, 1, 0, -1)
         IN  IF best = 0 THEN NoResult
             ELSE LET epigraph == EpigraphFrom(d, 1, <<>>)
                      body == html_to_markdown(d[best].ev)
                      plain_epi == Strip(Unstyled(epigraph))
                  IN  IF body = <<>> THEN NoResult
                      ELSE IF epigraph # <<>>
                              /\ ~ IsSubText(plain_epi, Unstyled(body))
                      THEN [found |-> TRUE, body |-> body,
                            epigraph |-> EpiClean(epigraph)]
                      ELSE [found |-> TRUE, body |-> body]

\* ---- extract_poem_from_nuxt ----
MaxTail == 3

Brs(n) == [i \in 1 .. n |-> STag("br", "")]

HiddenSpanOpen == STag("span", HiddenStyle)

LinkTokens == {HiddenSpanOpen, ETag("span"), STag("a", "")}

ItemTexts == {Run("t40", 40), Run("t60", 60), Run("t400", 400), Run("t1200", 1200)}

\* <first> [<span style="display:none">] text <br>... then spans and links
NuxtItems ==
    { Str(<<STag(first, "")>> \o pre \o <<Data(<<w>>)>> \o Brs(b) \o tail) :
          first \in {"p", "div"}, pre \in {<<>>, <<HiddenSpanOpen>>},
          w \in ItemTexts, b \in {2, 3, 12},
          tail \in SeqsUpTo(LinkTokens, MaxTail) }

OtherItems ==
    { NonStr,
      Str(<<STag("p", ""), Data(<<Run("c100", 100)>>)>> \o Brs(3) \o <<ETag("p")>>),
      Str(<<STag("div", ItalicStyle), Data(<<Run("for", 3)>>), ETag("div")>>) }

NuxtPages ==
    { [script |-> FALSE, json_ok |-> FALSE, data |-> <<>>],
      [script |-> TRUE, json_ok |-> FALSE, data |-> <<>>], Page(<<>>) }
        \cup {Page(<<it>>) : it \in NuxtItems}
        \cup {Page(<<it, o>>) : it \in NuxtItems, o \in OtherItems}
        \cup {Page(<<o, it>>) : it \in NuxtItems, o \in OtherItems}

InitNuxt ==
    /\ input \in NuxtPages /\ output = NoResult /\ called = FALSE
    /\ ConvIdle /\ MainIdle

CallExtractPoemFromNuxt ==
    /\ ~ called
    /\ output' = extract_poem_from_nuxt(input)
    /\ called' = TRUE
    /\ UNCHANGED <<input, convVars, mainVars>>

SpecNuxt == InitNuxt /\ [][CallExtractPoemFromNuxt]_vars

\* the entry meets the thresholds of the claim: a string that begins with a
\* paragraph tag, holds 3 line-break markers and 50 characters of plain text
MeetsThresholds(item) ==
    /\ item.str /\ StartsWithP(item.ev)
    /\ BrCount(item.ev) >= 3 /\ TextLen(item.ev) >= 50

TheOnlyOne(d, i) ==
    /\ MeetsThresholds(d[i])
    /\ \A j \in DOMAIN d : j # i => ~ MeetsThresholds(d[j])

Selected(item) == output.found /\ output.body = html_to_markdown(item.ev)

RECURSIVE LinkOutsideHidden(_, _)
LinkOutsideHidden(ev, o) ==
    IF ev = <<>> THEN FALSE
    ELSE LET e == ev[1]
         IN  \/ e.k = "start" /\ e.tag = "a" /\ ~ InHidden(o)
             \/ LinkOutsideHidden(Tail(ev),
                    CASE e.k = "start" -> OpenAfterStart(o, e.tag, e.style)
                      [] e.k = "end" -> OpenAfterEnd(o, e.tag)
                      [] OTHER -> o)

IsProse(item) ==
    /\ item.str /\ LinkOutsideHidden(item.ev, <<>>)
    /\ 100 * BrCount(item.ev) < TextLen(item.ev)

\* C8: an entry with a visible link and a lineBreakRatio below 0.01 is never
\* the entry whose conversion is returned.
C8_ProseNeverSelected ==
    called => \A i \in DOMAIN input.data :
        IsProse(input.data[i]) => ~ Selected(input.data[i])

\* a prose entry that meets the thresholds and outscores the entry returned
C8_Witness ==
    /\ called /\ output.found
    /\ \E i, j \in DOMAIN input.data :
          /\ IsProse(input.data[i]) /\ MeetsThresholds(input.data[i])
          /\ Selected(input.data[j])
          /\ Score(input.data[i]) > Score(input.data[j])

(***************************************************************************)
(* main                                                                    *)
(*                                                                         *)
(* One action per stretch of main() between two fetches.  poem.json is     *)
(* [exists, readable, rec]: whether the file exists, whether it parses,    *)
(* and the record it holds.                                                *)
(***************************************************************************)
None == [none |-> TRUE]
IsNone(d) == "none" \in DOMAIN d

NoFile == [exists |-> FALSE, readable |-> FALSE, rec |-> None]
BadFile == [exists |-> TRUE, readable |-> FALSE, rec |-> None]
File(rec) == [exists |-> TRUE, readable |-> TRUE, rec |-> rec]

\* lines 605-621: the record built from the NUXT data, None when there is
\* no page, no result or the record is not valid
NuxtData(jd, nr) ==
    IF ~ nr.found THEN None
    ELSE LET d0 == [title |-> jd.title, author |-> jd.author, poem |-> nr.body]
             d  == IF "epigraph" \in DOMAIN nr /\ nr.epigraph # <<>>
                   THEN [title |-> jd.title, author |-> jd.author,
                         poem |-> nr.body, epigraph |-> nr.epigraph]
                   ELSE d0
         IN  IF is_valid(d) THEN d ELSE None

\* faulty variant: the Markdown record preferred to the NUXT record
FallbackData_MarkdownFirst(d, jd, landing) ==
    IF is_valid(jd) THEN jd
    ELSE IF ~ IsNone(d) /\ is_valid(d) THEN d
    ELSE parse_poem_markdown(landing)

\* lines 623-630
FallbackData(d, jd, landing) ==
    LET d1 == IF IsNone(d) \/ ~ is_valid(d) THEN jd ELSE d
    IN  IF ~ is_valid(d1) THEN parse_poem_markdown(landing) ELSE d1

\* existing.get("poem") of a poem.json that exists and parses
KeepsExisting(f) == f.exists /\ f.readable /\ PoemOf(f.rec) # <<>>

MaxMainLines == 2

MainLines ==
    {Link("Read More", U111), T("By Jane Poet"), T("Line1"), T("<SCRIPT")}

MainDocs == {Doc(ls) : ls \in SeqsUpTo(MainLines, MaxMainLines)}

PoemItem == Str(<<STag("p", ""), Data(<<Run("t60", 60)>>)>> \o Brs(3) \o <<ETag("p")>>)
JunkItem == Str(<<STag("p", ""), Data(<<Run("<SCRIPT", 7), Run("t60", 60)>>)>> \o Brs(3))
EpigraphItem == Str(<<STag("div", ItalicStyle), Data(<<Run("for", 3)>>), ETag("div")>>)

MainPages ==
    { [script |-> FALSE, json_ok |-> FALSE, data |-> <<>>],
      [script |-> TRUE, json_ok |-> FALSE, data |-> <<>>],
      Page(<<NonStr>>), Page(<<PoemItem>>), Page(<<JunkItem>>),
      Page(<<EpigraphItem, PoemItem>>) }

PriorFiles ==
    { NoFile, BadFile,
      File([title |-> "Old", author |-> "Old Poet", poem |-> <<>>]),
      File([title |-> "Old", author |-> "Old Poet", poem |-> <<Run("old", 3)>>]) }

Init ==
    /\ pc = "start" /\ pod_md = Doc(<<>>) /\ poem_url = NotFound
    /\ jina_data = None /\ nuxt_result = NoResult /\ data = None
    /\ out_file \in PriorFiles /\ prior = out_file /\ outcome = "running"
    /\ input = <<>> /\ output = <<>> /\ called = FALSE
    /\ ConvIdle

Raise(how) == pc' = "done" /\ outcome' = how

\* lines 591-598, fetch_markdown(POD_URL) raising
LandingFetchFails ==
    /\ pc = "start"
    /\ Raise("raised: fetch failed")
    /\ UNCHANGED <<pod_md, poem_url, jina_data, nuxt_result, data, out_file,
                   prior, callVars, convVars>>

\* lines 591-598
FetchLanding ==
    /\ pc = "start"
    /\ \E md \in MainDocs :
          /\ pod_md' = md
          /\ poem_url' = extract_poem_url(md.lines)
          /\ IF extract_poem_url(md.lines) = NotFound
             THEN Raise("raised: no poem URL")
             ELSE pc' = "poem" /\ outcome' = outcome
    /\ UNCHANGED <<jina_data, nuxt_result, data, out_file, prior, callVars,
                   convVars>>

\* lines 601-602, fetch_markdown(poem_url) raising
PoemFetchFails ==
    /\ pc = "poem"
    /\ Raise("raised: fetch failed")
    /\ UNCHANGED <<pod_md, poem_url, jina_data, nuxt_result, data, out_file,
                   prior, callVars, convVars>>

\* lines 601-602
FetchPoem ==
    /\ pc = "poem"
    /\ \E poem_md \in MainDocs : jina_data' = parse_poem_markdown(poem_md)
    /\ pc' = "html"
    /\ UNCHANGED <<pod_md, poem_url, nuxt_result, data, out_file, prior,
                   outcome, callVars, convVars>>

\* lines 605-621, fetch_html returning None
HtmlFetchFails ==
    /\ pc = "html"
    /\ nuxt_result' = NoResult /\ data' = None
    /\ pc' = "fallback"
    /\ UNCHANGED <<pod_md, poem_url, jina_data, out_file, prior, outcome,
                   callVars, convVars>>

\* lines 605-621
TryNuxt ==
    /\ pc = "html"
    /\ \E page_html \in MainPages :
          /\ nuxt_result' = extract_poem_from_nuxt(page_html)
          /\ data' = NuxtData(jina_data, extract_poem_from_nuxt(page_html))
    /\ pc' = "fallback"
    /\ UNCHANGED <<pod_md, poem_url, jina_data, out_file, prior, outcome,
                   callVars, convVars>>

\* lines 623-630
Fallback ==
    /\ pc = "fallback"
    /\ data' = FallbackData(data, jina_data, pod_md)
    /\ pc' = "finish"
    /\ UNCHANGED <<pod_md, poem_url, jina_data, nuxt_result, out_file, prior,
                   outcome, callVars, convVars>>

\* faulty variant: lines 632-649 without the test of line 632
Finish_NoValidation ==
    /\ pc = "finish"
    /\ out_file' = File(data)
    /\ pc' = "done" /\ outcome' = "written"
    /\ UNCHANGED <<pod_md, poem_url, jina_data, nuxt_result, data, prior,
                   callVars, convVars>>

\* faulty variant: lines 632-649 without the branch of lines 634-641
Finish_AlwaysRaises ==
    /\ pc = "finish"
    /\ IF ~ is_valid(data)
       THEN Raise("raised: could not extract") /\ out_file' = out_file
       ELSE /\ out_file' = File(data)
            /\ pc' = "done" /\ outcome' = "written"
    /\ UNCHANGED <<pod_md, poem_url, jina_data, nuxt_result, data, prior,
                   callVars, convVars>>

\* lines 632-649
Finish ==
    /\ pc = "finish"
    /\ IF ~ is_valid(data)
       THEN /\ IF KeepsExisting(out_file)
               THEN pc' = "done" /\ outcome' = "kept: warning printed"
               ELSE Raise("raised: could not extract")
            /\ out_file' = out_file
       ELSE /\ out_file' = File(data)
            /\ pc' = "done" /\ outcome' = "written"
    /\ UNCHANGED <<pod_md, poem_url, jina_data, nuxt_result, data, prior,
                   callVars, convVars>>

Next ==
    \/ LandingFetchFails \/ FetchLanding
    \/ PoemFetchFails \/ FetchPoem
    \/ HtmlFetchFails \/ TryNuxt
    \/ Fallback \/ Finish

Spec == Init /\ [][Next]_vars

Raised == outcome \in {"raised: fetch failed", "raised: no poem URL",
                       "raised: could not extract"}

\* the record built from the NUXT result, whether valid or not
NuxtRecordValid ==
    nuxt_result.found /\ is_valid([poem |-> nuxt_result.body])

\* main went through every strategy and none gave a valid record
Exhausted ==
    /\ pc = "done"
    /\ outcome \in {"kept: warning printed", "raised: could not extract"}
    /\ ~ NuxtRecordValid /\ ~ is_valid(jina_data)
    /\ ~ is_valid(parse_poem_markdown(pod_md))

\* C1: poem.json is written only with a record that is_valid accepts; in
\* every other case main raises or returns and poem.json is as it was.
C1_OnlyValidRecordsWritten ==
    /\ out_file # prior =>
          /\ outcome = "written" /\ out_file.exists /\ out_file.readable
          /\ is_valid(out_file.rec)
    /\ pc = "done" =>
          \/ outcome = "written" /\ is_valid(out_file.rec)
          \/ (Raised \/ outcome = "kept: warning printed") /\ out_file = prior

\* a run in which the NUXT record was rejected and a valid record written
C1_Witness ==
    /\ outcome = "written" /\ out_file # prior
    /\ nuxt_result.found /\ ~ NuxtRecordValid

\* C2 as stated: Exhausted with a prior poem.json is a no-op with a warning,
\* and the hard failure is raised only when there is no prior poem.json.
C2_ExhaustedKeepsAnyPriorFile ==
    Exhausted =>
        /\ prior.exists => outcome = "kept: warning printed" /\ out_file = prior
        /\ outcome = "raised: could not extract" => ~ prior.exists

\* C2 amended: Exhausted is a no-op with a warning when the prior poem.json
\* parses and holds a non-empty poem; the hard failure is raised only when
\* there is no such file; poem.json is left as it was in both cases.
C2_ExhaustedKeepsGoodPriorFile ==
    LET good == prior.exists /\ prior.readable /\ PoemOf(prior.rec) # <<>>
    IN  /\ Exhausted =>
              /\ out_file = prior
              /\ good => outcome = "kept: warning printed"
              /\ outcome = "raised: could not extract" => ~ good
        /\ outcome \in {"kept: warning printed", "raised: could not extract"}
              => Exhausted

\* every strategy was tried and failed, and the good prior file was kept
C2_Witness ==
    /\ Exhausted /\ outcome = "kept: warning printed"
    /\ nuxt_result.found /\ KeepsExisting(prior)

\* C3: the NUXT record is written whenever it is valid, even if the Markdown
\* record is valid too; the Markdown record only when the NUXT record is
\* missing or rejected; the landing-page record only when both were rejected.
C3_StrategyOrder ==
    outcome = "written" =>
        LET rec == out_file.rec
            landing == parse_poem_markdown(pod_md)
        IN  /\ NuxtRecordValid =>
                  /\ rec.poem = nuxt_result.body
                  /\ rec.title = jina_data.title /\ rec.author = jina_data.author
            /\ (~ NuxtRecordValid /\ is_valid(jina_data)) => rec = jina_data
            /\ (~ NuxtRecordValid /\ ~ is_valid(jina_data)) => rec = landing

\* both the NUXT record and the Markdown record were valid, with different
\* bodies, and a record was written
C3_Witness ==
    /\ outcome = "written" /\ NuxtRecordValid /\ is_valid(jina_data)
    /\ jina_data.poem # nuxt_result.body

\* C4: when extract_poem_url finds no link main does not fail: it parses
\* the landing page itself, and fails only if that record is rejected too.
C4_NoUrlFallsBackToLanding ==
    outcome = "raised: no poem URL" =>
        ~ is_valid(parse_poem_markdown(pod_md))

\* C10: a Markdown extraction without an author is rejected by the
\* validator, and no record of the Markdown Extractor with an empty author
\* is written.
C10_NoAuthorIsRejected ==
    /\ (~ IsNone(jina_data) /\ jina_data.author = "") => ~ is_valid(jina_data)
    /\ (outcome = "written"
          /\ out_file.rec \in {jina_data, parse_poem_markdown(pod_md)})
          => out_file.rec.author # ""

====
